---------------------------- MODULE Spec2Model ----------------------------
(***************************************************************************)
(* Conway's Game of Life on a torus (lloydmeta/gol-rs).                    *)
(*                                                                         *)
(*   data/cell.rs       Status, Cell::next_status                          *)
(*   data/grid.rs       Grid::new, the neighbour cache, the query surface, *)
(*                      Grid::advance (double buffer, seq / par dispatch)  *)
(*   rendering/mod.rs   App::run / render / update_instances (the reader)  *)
(*                      and async_update_loop (the update task), sharing   *)
(*                      the Grid behind one Mutex                          *)
(*   main.rs            the argument checks in front of Grid::new          *)
(*                                                                         *)
(* Vec<T> is a function on 0 .. len-1, so that every index of the model is *)
(* the index of the code.  Option<T> is <<>> (None) or <<x>> (Some(x)).    *)
(*                                                                         *)
(* The specifications share the Grid actions:                              *)
(*   Spec        the program main.rs starts: grid dimensions > 0, the      *)
(*               update task and the render loop interleaving under the    *)
(*               Mutex; the elapsed test of the update task may pass at    *)
(*               any moment.                                               *)
(*   SpecTimed   Spec with the wall clock, on two grids.                   *)
(*   SpecPoison  Spec with a fan-out that may panic and poison the Mutex.  *)
(*   SpecGrid    the library surface of data/grid.rs used by one caller:   *)
(*               Grid::new with any dimensions (zero included), then any   *)
(*               sequence of advance() and query calls.                    *)
(*   SpecCoords  neighbour_coords called on its own.                       *)
(***************************************************************************)
EXTENDS Integers, FiniteSets, Sequences, TLC

(***************************************************************************)
(* Bounds of the model.                                                    *)
(***************************************************************************)
\* Grid::new(width, height) is called with width in 0 .. MaxWidth.
MaxWidth == 4
\* ... and height in 0 .. MaxHeight.
MaxHeight == 3
\* Grids of at most MaxArea cells start from every possible content; larger
\* ones, of at most MaxSeedArea cells, start from the SeedPatterns.
MaxArea == 6
MaxSeedArea == 9
\* advance() is called at most MaxGen times in one behaviour.
MaxGen == 2
\* neighbour_coords is called with max_i and max_j in 0 .. MaxCoord.
MaxCoord == 4
\* SpecTimed: the wall clock advances in ticks, TicksPerMs of them to the
\* millisecond, and is followed up to MaxTime ticks.
TicksPerMs == 2
MaxTime == 6
\* grid.rs:7 sets PAR_THRESHOLD_AREA to 250_000.  The model scales it down so
\* that grids on both sides of the threshold exist within MaxWidth x MaxHeight;
\* the dispatch test `area >= PAR_THRESHOLD_AREA` is the code's.
PAR_THRESHOLD_AREA == 4

(***************************************************************************)
(* Vec and Option helpers.                                                 *)
(***************************************************************************)
EmptyVec == <<>>

VecLen(v) == Cardinality(DOMAIN v)

VecAppend(v, w) ==
    [k \in 0 .. (VecLen(v) + VecLen(w) - 1) |->
        IF k < VecLen(v) THEN v[k] ELSE w[k - VecLen(v)]]

None == <<>>

Some(x) == <<x>>

Min(S) == CHOOSE x \in S : \A y \in S : x <= y

(***************************************************************************)
(* data/cell.rs                                                            *)
(***************************************************************************)
Status == {"Dead", "Alive"}

\* Cell::alive
alive(cell) == cell = "Alive"

\* next_status with the survival arm matching every status: a Dead cell with
\* two Alive neighbours comes alive.
next_status_two_births(self, neighbours_cnt) ==
    CASE neighbours_cnt = 3 -> "Alive"
      [] neighbours_cnt = 2 -> "Alive"
      [] OTHER -> "Dead"

\* Cell::next_status: match (&self.0, neighbours_cnt), first arm that matches.
next_status(self, neighbours_cnt) ==
    CASE neighbours_cnt = 3 -> "Alive"
      [] self = "Alive" /\ neighbours_cnt = 2 -> "Alive"
      [] OTHER -> "Dead"

(***************************************************************************)
(* data/grid.rs: the neighbour cache                                       *)
(***************************************************************************)
\* neighbour_coords with j_left and j_right taken the wrong way round.
neighbour_coords_mirrored(max_i_, max_j_, i, j) ==
    LET width_ == max_j_ + 1
        to_idx(ci, cj) == width_ * ci + cj
        i_up == IF i = 0 THEN max_i_ ELSE i - 1
        i_down == IF i = max_i_ THEN 0 ELSE i + 1
        j_right == IF j = 0 THEN max_j_ ELSE j - 1
        j_left == IF j = max_j_ THEN 0 ELSE j + 1
    IN  [d \in 0 .. 7 |->
            CASE d = 0 -> to_idx(i_up, j)
              [] d = 1 -> to_idx(i_up, j_right)
              [] d = 2 -> to_idx(i, j_right)
              [] d = 3 -> to_idx(i_down, j_right)
              [] d = 4 -> to_idx(i_down, j)
              [] d = 5 -> to_idx(i_down, j_left)
              [] d = 6 -> to_idx(i, j_left)
              [] d = 7 -> to_idx(i_up, j_left)]

\* neighbour_coords with the south-east entry built from i_up, as its
\* north-east entry is.
neighbour_coords_se_is_ne(max_i_, max_j_, i, j) ==
    LET width_ == max_j_ + 1
        to_idx(ci, cj) == width_ * ci + cj
        i_up == IF i = 0 THEN max_i_ ELSE i - 1
        i_down == IF i = max_i_ THEN 0 ELSE i + 1
        j_left == IF j = 0 THEN max_j_ ELSE j - 1
        j_right == IF j = max_j_ THEN 0 ELSE j + 1
    IN  [d \in 0 .. 7 |->
            CASE d = 0 -> to_idx(i_up, j)
              [] d = 1 -> to_idx(i_up, j_right)
              [] d = 2 -> to_idx(i, j_right)
              [] d = 3 -> to_idx(i_up, j_right)
              [] d = 4 -> to_idx(i_down, j)
              [] d = 5 -> to_idx(i_down, j_left)
              [] d = 6 -> to_idx(i, j_left)
              [] d = 7 -> to_idx(i_up, j_left)]

\* neighbour_coords that stops at the bottom border where it should wrap.
neighbour_coords_clamped_south(max_i_, max_j_, i, j) ==
    LET width_ == max_j_ + 1
        to_idx(ci, cj) == width_ * ci + cj
        i_up == IF i = 0 THEN max_i_ ELSE i - 1
        i_down == IF i = max_i_ THEN max_i_ ELSE i + 1
        j_left == IF j = 0 THEN max_j_ ELSE j - 1
        j_right == IF j = max_j_ THEN 0 ELSE j + 1
    IN  [d \in 0 .. 7 |->
            CASE d = 0 -> to_idx(i_up, j)
              [] d = 1 -> to_idx(i_up, j_right)
              [] d = 2 -> to_idx(i, j_right)
              [] d = 3 -> to_idx(i_down, j_right)
              [] d = 4 -> to_idx(i_down, j)
              [] d = 5 -> to_idx(i_down, j_left)
              [] d = 6 -> to_idx(i, j_left)
              [] d = 7 -> to_idx(i_up, j_left)]

\* neighbour_coords: the 8 flat indices N, NE, E, SE, S, SW, W, NW of (i, j).
neighbour_coords(max_i_, max_j_, i, j) ==
    LET width_ == max_j_ + 1
        to_idx(ci, cj) == width_ * ci + cj
        i_up == IF i = 0 THEN max_i_ ELSE i - 1
        i_down == IF i = max_i_ THEN 0 ELSE i + 1
        j_left == IF j = 0 THEN max_j_ ELSE j - 1
        j_right == IF j = max_j_ THEN 0 ELSE j + 1
    IN  [d \in 0 .. 7 |->
            CASE d = 0 -> to_idx(i_up, j)
              [] d = 1 -> to_idx(i_up, j_right)
              [] d = 2 -> to_idx(i, j_right)
              [] d = 3 -> to_idx(i_down, j_right)
              [] d = 4 -> to_idx(i_down, j)
              [] d = 5 -> to_idx(i_down, j_left)
              [] d = 6 -> to_idx(i, j_left)
              [] d = 7 -> to_idx(i_up, j_left)]

\* The inner loop of neighbours(): one entry per cell of row i, columns 0 .. n-1.
RECURSIVE neighbours_row(_, _, _, _, _)
neighbours_row(max_i_, max_j_, rows, i, n) ==
    IF n = 0 THEN EmptyVec
    ELSE VecAppend(neighbours_row(max_i_, max_j_, rows, i, n - 1),
                   [k \in {0} |-> neighbour_coords(max_i_, max_j_, i, n - 1)])

\* The outer loop of neighbours(): the rows 0 .. n-1 of the 2-D grid.
RECURSIVE neighbours_rows(_, _, _, _)
neighbours_rows(max_i_, max_j_, rows, n) ==
    IF n = 0 THEN EmptyVec
    ELSE VecAppend(neighbours_rows(max_i_, max_j_, rows, n - 1),
                   neighbours_row(max_i_, max_j_, rows, n - 1, VecLen(rows[n - 1])))

\* neighbours(max_i, max_j, &grid)
neighbours_of(max_i_, max_j_, rows) ==
    neighbours_rows(max_i_, max_j_, rows, VecLen(rows))

\* grid.into_iter().flatten().collect(): the rows 0 .. n-1 one after another.
RECURSIVE flatten(_, _)
flatten(rows, n) ==
    IF n = 0 THEN EmptyVec ELSE VecAppend(flatten(rows, n - 1), rows[n - 1])

(***************************************************************************)
(* State                                                                   *)
(***************************************************************************)
VARIABLES
    \* struct Grid
    cells, scratchpad_cells, max_i, max_j, area, neighbours,
    \* the call of Grid::new that built it: [width, height, grid (the 2-D rows)]
    created,
    \* number of advance() calls that have returned
    generation,
    \* the advance() call in progress: "none" | "seq" | "par", and the indices
    \* of the scratchpad its pass has not visited yet
    advance_pc, adv_pending,
    \* the two buffers as that advance() call found them
    adv_entry,
    \* how many times cell.update ran on each scratchpad index in this advance()
    adv_writes,
    \* Mutex<Grid>: "free" | "updater" | "reader" | "poisoned" (free, after a
    \* holder panicked)
    mutex,
    \* async_update_loop: "unspawned" | "spawn" | "loop" | "locking" |
    \* "advancing" | "panicked" | "failed" (it returned Err)
    updater_pc, updates_per_second,
    \* its local last_updated, and the instants at which it called advance()
    last_updated, calls,
    \* the wall clock, in ticks since the process started
    now,
    \* rayon's global thread pool, built by the first fan-out of the process:
    \* "unbuilt" | "built"
    pool,
    \* App::run / render / update_instances:
    \* "run" | "poll" | "render" | "copy" | "copied" | "exited" | "panicked" |
    \* "failed" (run returned Err)
    app_pc, running, uploading, instances, inst_pending,
    \* the value of `generation` when instances was last filled: by App::new,
    \* or when update_instances took the lock
    snapshot_gen,
    \* SpecGrid: the last call of the query surface and what it returned
    ret

grid_vars == <<cells, scratchpad_cells, max_i, max_j, area, neighbours>>

adv_vars == <<advance_pc, adv_pending, adv_entry, adv_writes>>

updater_vars == <<updater_pc, updates_per_second, last_updated, calls>>

env_vars == <<now, pool>>

app_vars == <<app_pc, running, uploading, instances, inst_pending,
              snapshot_gen>>

vars == <<cells, scratchpad_cells, max_i, max_j, area, neighbours, created,
          generation, advance_pc, adv_pending, adv_entry, adv_writes, mutex,
          updater_pc, updates_per_second, app_pc, running, uploading,
          instances, inst_pending, snapshot_gen, ret, last_updated, calls,
          now, pool>>

(***************************************************************************)
(* data/grid.rs: Grid::new and the query surface                           *)
(***************************************************************************)
\* Grid::new(width, height), `rows` being the 2-D grid its loops fill from the
\* random generator.
Grid_new(width_, height_, rows) ==
    LET mi == IF height_ = 0 THEN 0 ELSE height_ - 1
        mj == IF width_ = 0 THEN 0 ELSE width_ - 1
        flat == flatten(rows, VecLen(rows))
    IN  [cells |-> flat,
         scratchpad_cells |-> flat,
         max_i |-> mi,
         max_j |-> mj,
         area |-> width_ * height_,
         neighbours |-> neighbours_of(mi, mj, rows)]

\* Grid::height
height == max_i + 1

\* Grid::width
width == max_j + 1

\* get_idx looking the index up in the scratchpad.
get_idx_scratchpad(idx) ==
    IF idx < VecLen(scratchpad_cells) THEN Some(scratchpad_cells[idx]) ELSE None

\* Grid::get_idx
get_idx(idx) == IF idx < VecLen(cells) THEN Some(cells[idx]) ELSE None

\* Grid::to_grid_idx
to_grid_idx(i, j) ==
    IF i <= max_i /\ j <= max_j THEN Some(width * i + j) ELSE None

\* The inner loop of cells(): n references pushed onto `columns`, the running
\* index i being `start` when the loop is entered.
RECURSIVE cells_columns(_, _)
cells_columns(start, n) ==
    IF n = 0 THEN EmptyVec
    ELSE VecAppend(cells_columns(start, n - 1),
                   [k \in {0} |-> cells[start + n - 1]])

\* The outer loop of cells(): n rows pushed; every row before moved the
\* running index on by width().
RECURSIVE cells_rows(_)
cells_rows(n) ==
    IF n = 0 THEN EmptyVec
    ELSE VecAppend(cells_rows(n - 1),
                   [k \in {0} |-> cells_columns((n - 1) * width, width)])

\* &self.cells[i] panics when the running index, which takes every value
\* below height() * width(), is not an index of self.cells.
cells_panics == \E i \in 0 .. (height * width - 1) : i >= VecLen(cells)

\* Grid::cells, when it returns: height() rows of width() references.
cells_view == cells_rows(height)

(***************************************************************************)
(* data/grid.rs: Grid::advance                                             *)
(***************************************************************************)
\* alives starting its fold from the cell itself: a 9-cell neighbourhood.
alives_with_self(last_gen, i) ==
    Cardinality({d \in 0 .. 7 : last_gen[neighbours[i][d]] = "Alive"})
        + (IF last_gen[i] = "Alive" THEN 1 ELSE 0)

\* alives with a fold that stops one entry short: NW is never counted.
alives_without_north_west(last_gen, i) ==
    Cardinality({d \in 0 .. 6 : last_gen[neighbours[i][d]] = "Alive"})

\* The fold of cell_op: how many of the 8 entries of neighbours[i] name a cell
\* that is Alive in last_gen.
alives(last_gen, i) ==
    Cardinality({d \in 0 .. 7 : last_gen[neighbours[i][d]] = "Alive"})

\* cell_op calling cell.next_status(alives) on the scratchpad entry, whose
\* status is two generations old, in place of last_gen[i].
cell_op_own_status(last_gen, i, cell) == next_status(cell, alives(last_gen, i))

\* cell_op((i, cell)), cell being scratchpad entry i: the status cell.update
\* leaves in it.
cell_op(last_gen, i, cell) == next_status(last_gen[i], alives(last_gen, i))

\* The sequential pass as a whole: the scratchpad after the for loop visited
\* the indices 0 .. n-1 in increasing order.
RECURSIVE seq_pass(_, _, _)
seq_pass(last_gen, scratch, n) ==
    IF n = 0 THEN scratch
    ELSE LET s == seq_pass(last_gen, scratch, n - 1)
         IN  [s EXCEPT ![n - 1] = cell_op(last_gen, n - 1, s[n - 1])]

\* The dispatch of advance(): which pass runs.
area_requires_par == area >= PAR_THRESHOLD_AREA

\* par_iter_mut() is reached on the fan-out side of the dispatch: the first
\* fan-out of the process builds rayon's global thread pool.
enter_pass == pool' = IF area_requires_par THEN "built" ELSE pool

\* advance() is entered: nothing of the scratchpad has been visited.
AdvanceBegin ==
    /\ advance_pc' = IF area_requires_par THEN "par" ELSE "seq"
    /\ adv_pending' = DOMAIN scratchpad_cells
    /\ adv_entry' = [cells |-> cells, scratchpad_cells |-> scratchpad_cells]
    /\ adv_writes' = [k \in DOMAIN scratchpad_cells |-> 0]

\* A pass over a single buffer: cell.update on self.cells[i] itself.
CellOpStep_in_place(i) ==
    /\ cells' = [cells EXCEPT ![i] = cell_op(cells, i, cells[i])]
    /\ adv_pending' = adv_pending \ {i}
    /\ adv_writes' = [adv_writes EXCEPT ![i] = @ + 1]
    /\ UNCHANGED <<scratchpad_cells, max_i, max_j, area, neighbours,
                   advance_pc, adv_entry>>

\* cell_op((i, cell)): cell.update(next_status) on scratchpad index i.
CellOpStep(i) ==
    /\ scratchpad_cells' =
           [scratchpad_cells EXCEPT ![i] = cell_op(cells, i, scratchpad_cells[i])]
    /\ adv_pending' = adv_pending \ {i}
    /\ adv_writes' = [adv_writes EXCEPT ![i] = @ + 1]
    /\ UNCHANGED <<cells, max_i, max_j, area, neighbours, advance_pc, adv_entry>>

\* for (i, cell) in cells.iter_mut().enumerate(): the next index in order.
AdvanceSeqStep ==
    /\ advance_pc = "seq"
    /\ adv_pending # {}
    /\ CellOpStep(Min(adv_pending))
    /\ UNCHANGED <<created, env_vars, generation, mutex, updater_vars, app_vars, ret>>

\* cells.par_iter_mut().enumerate().for_each(cell_op): the workers take the
\* indices, each exactly once, in whatever order the scheduler produces.
AdvanceParStep(i) ==
    /\ advance_pc = "par"
    /\ i \in adv_pending
    /\ CellOpStep(i)
    /\ UNCHANGED <<created, env_vars, generation, mutex, updater_vars, app_vars, ret>>

\* A swap that exchanges max_i and max_j along with the buffers.
mem_swap_transposing ==
    /\ cells' = scratchpad_cells
    /\ scratchpad_cells' = cells
    /\ max_i' = max_j
    /\ max_j' = max_i
    /\ UNCHANGED <<area, neighbours>>

\* The new generation copied into cells, the scratchpad keeping it too.
mem_swap_copying ==
    /\ cells' = scratchpad_cells
    /\ scratchpad_cells' = scratchpad_cells
    /\ UNCHANGED <<max_i, max_j, area, neighbours>>

\* mem::swap(&mut self.cells, &mut self.scratchpad_cells)
mem_swap ==
    /\ cells' = scratchpad_cells
    /\ scratchpad_cells' = cells
    /\ UNCHANGED <<max_i, max_j, area, neighbours>>

\* A fan-out that returns without joining its workers.
pass_done_unjoined == advance_pc = "par" \/ adv_pending = {}

\* The for loop ended, or for_each returned (it joins its workers).
pass_done == adv_pending = {}

\* The pass is over: swap and return.
AdvanceSwap ==
    /\ advance_pc \in {"seq", "par"}
    /\ pass_done
    /\ mem_swap
    /\ advance_pc' = "none"
    /\ generation' = generation + 1
    /\ UNCHANGED <<adv_pending, adv_entry, adv_writes, created, env_vars, mutex,
                   updater_vars, app_vars, ret>>

(***************************************************************************)
(* Initial grids                                                           *)
(***************************************************************************)
AllDead(w, h) == [i \in 0 .. h - 1 |-> [j \in 0 .. w - 1 |-> "Dead"]]

AllAlive(w, h) == [i \in 0 .. h - 1 |-> [j \in 0 .. w - 1 |-> "Alive"]]

\* The fixture of test_alive_count and test_get_idx: Alive but for the centre.
DeadCentre(w, h) ==
    [i \in 0 .. h - 1 |-> [j \in 0 .. w - 1 |->
        IF i = h \div 2 /\ j = w \div 2 THEN "Dead" ELSE "Alive"]]

\* One Alive row.
AliveRow(w, h) ==
    [i \in 0 .. h - 1 |-> [j \in 0 .. w - 1 |->
        IF i = h \div 2 THEN "Alive" ELSE "Dead"]]

\* The last row Alive from column 1 on.
AliveBar(w, h) ==
    [i \in 0 .. h - 1 |-> [j \in 0 .. w - 1 |->
        IF i = h - 1 /\ j >= 1 THEN "Alive" ELSE "Dead"]]

\* Two Alive cells, at (0, w-1) and (1, 1).
AlivePair(w, h) ==
    [i \in 0 .. h - 1 |-> [j \in 0 .. w - 1 |->
        IF (i = 0 /\ j = w - 1) \/ (i = 1 /\ j = 1) THEN "Alive" ELSE "Dead"]]

SeedPatterns(w, h) ==
    {AllDead(w, h), AllAlive(w, h), DeadCentre(w, h), AliveRow(w, h),
     AliveBar(w, h), AlivePair(w, h)}

\* What the random generator of Grid::new can leave in the 2-D grid.
InitialRows(w, h) ==
    IF w * h <= MaxArea
    THEN [0 .. h - 1 -> [0 .. w - 1 -> Status]]
    ELSE SeedPatterns(w, h)

\* The state right after Grid::new(w, h) returned.
Constructed(w, h, rows) ==
    LET g == Grid_new(w, h, rows)
    IN  /\ cells = g.cells
        /\ scratchpad_cells = g.scratchpad_cells
        /\ max_i = g.max_i
        /\ max_j = g.max_j
        /\ area = g.area
        /\ neighbours = g.neighbours
        /\ created = [width |-> w, height |-> h, grid |-> rows]
        /\ generation = 0
        /\ advance_pc = "none"
        /\ adv_pending = {}
        /\ adv_entry = [cells |-> g.cells, scratchpad_cells |-> g.scratchpad_cells]
        /\ adv_writes = [k \in DOMAIN g.cells |-> 0]

(***************************************************************************)
(* SpecGrid: one caller of the library surface of data/grid.rs             *)
(***************************************************************************)
\* Arguments the caller passes to the index queries.
QueryIdx == 0 .. (MaxWidth * MaxHeight + 1)

QueryRow == 0 .. (MaxHeight + 1)

QueryCol == 0 .. (MaxWidth + 1)

\* The caller is between two calls, and none of its calls has panicked.
caller_idle == advance_pc = "none" /\ ~(ret.op = "cells" /\ ret.panic)

InitGrid ==
    /\ \E w \in 0 .. MaxWidth, h \in 0 .. MaxHeight :
           /\ w * h <= MaxSeedArea
           /\ \E rows \in InitialRows(w, h) : Constructed(w, h, rows)
    /\ mutex = "free"
    /\ updater_pc = "unspawned"
    /\ updates_per_second = 0
    /\ app_pc = "none"
    /\ running = FALSE
    /\ uploading = FALSE
    /\ instances = EmptyVec
    /\ inst_pending = {}
    /\ snapshot_gen = 0
    /\ ret = [op |-> "new"]
    /\ last_updated = 0
    /\ calls = <<>>
    /\ now = 0
    /\ pool = "unbuilt"

\* grid.advance() is called.
CallAdvance ==
    /\ caller_idle
    /\ generation < MaxGen
    /\ AdvanceBegin
    /\ enter_pass
    /\ ret' = [op |-> "advance"]
    /\ UNCHANGED <<grid_vars, created, now, generation, mutex, updater_vars,
                   app_vars>>

\* grid.get_idx(&GridIdx(idx))
CallGetIdx(idx) ==
    /\ caller_idle
    /\ ret' = [op |-> "get_idx", idx |-> idx, val |-> get_idx(idx)]
    /\ UNCHANGED <<grid_vars, created, env_vars, generation, adv_vars, mutex,
                   updater_vars, app_vars>>

\* grid.to_grid_idx(&Coord { i, j })
CallToGridIdx(i, j) ==
    /\ caller_idle
    /\ ret' = [op |-> "to_grid_idx", i |-> i, j |-> j, val |-> to_grid_idx(i, j)]
    /\ UNCHANGED <<grid_vars, created, env_vars, generation, adv_vars, mutex,
                   updater_vars, app_vars>>

\* cell.next_status(n) on the cell at flat index idx
CallNextStatus(idx, n) ==
    /\ caller_idle
    /\ idx \in DOMAIN cells
    /\ ret' = [op |-> "next_status", idx |-> idx, self |-> cells[idx],
               n |-> n, val |-> next_status(cells[idx], n)]
    /\ UNCHANGED <<grid_vars, created, env_vars, generation, adv_vars, mutex,
                   updater_vars, app_vars>>

\* grid.width(), grid.height(), grid.area()
CallDimensions ==
    /\ caller_idle
    /\ ret' = [op |-> "dimensions", width |-> width, height |-> height,
               area |-> area]
    /\ UNCHANGED <<grid_vars, created, env_vars, generation, adv_vars, mutex,
                   updater_vars, app_vars>>

\* grid.cells(): the rows it returns, or the panic of its indexing.
CallCells ==
    /\ caller_idle
    /\ ret' = IF cells_panics
              THEN [op |-> "cells", panic |-> TRUE]
              ELSE [op |-> "cells", panic |-> FALSE, val |-> cells_view]
    /\ UNCHANGED <<grid_vars, created, env_vars, generation, adv_vars, mutex,
                   updater_vars, app_vars>>

NextGrid ==
    \/ CallAdvance
    \/ AdvanceSeqStep
    \/ \E i \in 0 .. (MaxWidth * MaxHeight - 1) : AdvanceParStep(i)
    \/ AdvanceSwap
    \/ \E idx \in QueryIdx : CallGetIdx(idx)
    \/ \E i \in QueryRow, j \in QueryCol : CallToGridIdx(i, j)
    \/ \E idx \in QueryIdx, n \in 0 .. 8 : CallNextStatus(idx, n)
    \/ CallDimensions
    \/ CallCells

SpecGrid == InitGrid /\ [][NextGrid]_vars

(***************************************************************************)
(* SpecCoords: neighbour_coords called on its own, as neighbours() and     *)
(* test_neighbour_coords call it, for every cell of every grid of at most  *)
(* MaxCoord + 1 rows and columns.                                          *)
(***************************************************************************)
\* No Grid takes part: the state is that of the empty Grid.
InitCoords ==
    /\ InitGrid
    /\ created.width = 0
    /\ created.height = 0

\* neighbour_coords(max_i, max_j, &Coord { i, j })
CallNeighbourCoords(max_i_, max_j_, i, j) ==
    /\ ret' = [op |-> "neighbour_coords", max_i |-> max_i_, max_j |-> max_j_,
               i |-> i, j |-> j, val |-> neighbour_coords(max_i_, max_j_, i, j)]
    /\ UNCHANGED <<grid_vars, created, env_vars, generation, adv_vars, mutex,
                   updater_vars, app_vars>>

NextCoords ==
    \E max_i_ \in 0 .. MaxCoord, max_j_ \in 0 .. MaxCoord :
        \E i \in 0 .. max_i_, j \in 0 .. max_j_ :
            CallNeighbourCoords(max_i_, max_j_, i, j)

SpecCoords == InitCoords /\ [][NextCoords]_vars

(***************************************************************************)
(* rendering/mod.rs: the Mutex, the update task, the render loop           *)
(***************************************************************************)
\* A lock that hands the Grid over without waiting for its holder.
lock_no_exclusion(t) == mutex' = t

\* Mutex::lock by task t: it blocks until no task holds the Grid.
lock(t) ==
    /\ mutex = "free"
    /\ mutex' = t

\* A guard that is never dropped (mem::forget): the Mutex stays locked.
unlock_leaking(t) ==
    /\ mutex = t
    /\ mutex' = mutex

\* The MutexGuard of task t is dropped.
unlock(t) ==
    /\ mutex = t
    /\ mutex' = "free"

\* if cell.alive() { COLOURED } else { WHITE }
colour(cell) == IF alive(cell) THEN "COLOURED" ELSE "WHITE"

\* fill_instances: one Instance per cell of grid.cells(), row after row.
fill_instances ==
    flatten([i \in 0 .. height - 1 |->
                [j \in 0 .. width - 1 |-> colour(cells_view[i][j])]],
            height)

\* get_number(name, maybe_min, ..) on an argument that parses to u: Some(u)
\* when no minimum is given or u > min, else None, on which .expect panics
\* before inner_main has constructed anything.
get_number(u, maybe_min) ==
    IF maybe_min # None
    THEN IF u > maybe_min[1] THEN Some(u) ELSE None
    ELSE Some(u)

\* The --update-rate arguments given on the command line.
UpdateRates == {0, 30}

\* inner_main: get_number(.., Some(0), ..) for the two grid dimensions and
\* get_number("update-rate", None, ..) for the rate; then Grid::new and
\* App::new, which fills the instances and sets uploading.
Init ==
    /\ \E w \in 0 .. MaxWidth, h \in 0 .. MaxHeight :
           /\ get_number(w, Some(0)) # None
           /\ get_number(h, Some(0)) # None
           /\ w * h <= MaxSeedArea
           /\ \E rows \in InitialRows(w, h) : Constructed(w, h, rows)
    /\ \E u \in UpdateRates :
           /\ get_number(u, None) # None
           /\ updates_per_second = get_number(u, None)[1]
    /\ mutex = "free"
    /\ updater_pc = "unspawned"
    /\ app_pc = "run"
    /\ running = FALSE
    /\ uploading = TRUE
    /\ instances = fill_instances
    /\ inst_pending = {}
    /\ snapshot_gen = 0
    /\ ret = [op |-> "new"]
    /\ last_updated = 0
    /\ calls = <<>>
    /\ now = 0
    /\ pool = "unbuilt"

\* App::run up to its loop: the update task is spawned, running = true.
AppRun ==
    /\ app_pc = "run"
    /\ updater_pc' = "spawn"
    /\ running' = TRUE
    /\ app_pc' = "poll"
    /\ UNCHANGED <<grid_vars, created, env_vars, generation, adv_vars, mutex,
                   updates_per_second, last_updated, calls, uploading,
                   instances, inst_pending, snapshot_gen, ret>>

\* A loop whose stop events clear running whatever the upload state is.
AppPoll_stopping_at_once(stop) ==
    /\ app_pc = "poll"
    /\ running
    /\ running' = IF stop THEN FALSE ELSE running
    /\ app_pc' = "render"
    /\ UNCHANGED <<grid_vars, created, env_vars, generation, adv_vars, mutex,
                   updater_vars, uploading, instances, inst_pending,
                   snapshot_gen, ret>>

\* One `while running` test that passes, and poll_events: `stop` says whether
\* an Escape key, Closed or Resized event was among the polled events.
AppPoll(stop) ==
    /\ app_pc = "poll"
    /\ running
    /\ running' = IF stop THEN uploading ELSE running
    /\ app_pc' = "render"
    /\ UNCHANGED <<grid_vars, created, env_vars, generation, adv_vars, mutex,
                   updater_vars, uploading, instances, inst_pending,
                   snapshot_gen, ret>>

\* The `while running` test fails: run returns Ok(()).  main then exits the
\* process; until it has, the update task may still take steps.
AppExit ==
    /\ app_pc = "poll"
    /\ ~running
    /\ app_pc' = "exited"
    /\ UNCHANGED <<grid_vars, created, env_vars, generation, adv_vars, mutex,
                   updater_vars, running, uploading, instances, inst_pending,
                   snapshot_gen, ret>>

\* render() with uploading set: the upload buffer is copied, the frame drawn.
AppRenderUpload ==
    /\ app_pc = "render"
    /\ uploading
    /\ uploading' = FALSE
    /\ app_pc' = "poll"
    /\ UNCHANGED <<grid_vars, created, env_vars, generation, adv_vars, mutex,
                   updater_vars, running, instances, inst_pending,
                   snapshot_gen, ret>>

\* update_instances iterating from the second instance on (.skip(1)).
AppLock_skipping_first ==
    /\ app_pc = "render"
    /\ ~uploading
    /\ lock("reader")
    /\ enter_pass
    /\ app_pc' = "copy"
    /\ inst_pending' = DOMAIN instances \ {0}
    /\ snapshot_gen' = generation
    /\ UNCHANGED <<grid_vars, created, now, generation, adv_vars, updater_vars,
                   running, uploading, instances, ret>>

\* render() otherwise: update_instances takes the lock.
AppLock ==
    /\ app_pc = "render"
    /\ ~uploading
    /\ lock("reader")
    /\ enter_pass
    /\ app_pc' = "copy"
    /\ inst_pending' = DOMAIN instances
    /\ snapshot_gen' = generation
    /\ UNCHANGED <<grid_vars, created, now, generation, adv_vars, updater_vars,
                   running, uploading, instances, ret>>

\* op((idx, inst)) of update_instances.
InstanceOp(idx) ==
    /\ instances' = IF get_idx(idx) # None
                    THEN [instances EXCEPT ![idx] = colour(get_idx(idx)[1])]
                    ELSE instances
    /\ inst_pending' = inst_pending \ {idx}
    /\ UNCHANGED <<grid_vars, created, env_vars, generation, adv_vars, mutex,
                   updater_vars, app_pc, running, uploading, snapshot_gen, ret>>

\* for (idx, inst) in self.instances.iter_mut().enumerate()
AppCopySeq ==
    /\ app_pc = "copy"
    /\ ~area_requires_par
    /\ inst_pending # {}
    /\ InstanceOp(Min(inst_pending))

\* self.instances.par_iter_mut().enumerate().for_each(op)
AppCopyPar(idx) ==
    /\ app_pc = "copy"
    /\ area_requires_par
    /\ idx \in inst_pending
    /\ InstanceOp(idx)

\* update_instances returns Ok(()): its guard is dropped.
AppUnlock ==
    /\ app_pc = "copy"
    /\ inst_pending = {}
    /\ unlock("reader")
    /\ app_pc' = "copied"
    /\ UNCHANGED <<grid_vars, created, env_vars, generation, adv_vars, updater_vars,
                   running, uploading, instances, inst_pending, snapshot_gen,
                   ret>>

\* The rest of render(): the instances go to the device, the frame is drawn.
AppDraw ==
    /\ app_pc = "copied"
    /\ app_pc' = "poll"
    /\ UNCHANGED <<grid_vars, created, env_vars, generation, adv_vars, mutex,
                   updater_vars, running, uploading, instances, inst_pending,
                   snapshot_gen, ret>>

\* async_update_loop is entered: 1000 / updates_per_second panics on zero;
\* otherwise last_updated = Instant::now().
UpdaterStart ==
    /\ updater_pc = "spawn"
    /\ updater_pc' = IF updates_per_second = 0 THEN "panicked" ELSE "loop"
    /\ last_updated' = IF updates_per_second = 0 THEN last_updated ELSE now
    /\ UNCHANGED <<grid_vars, created, env_vars, generation, adv_vars, mutex,
                   updates_per_second, calls, app_vars, ret>>

\* last_updated.elapsed() > wait_duration holds: the task goes for the lock.
\* (While it does not hold, the loop spins without changing anything.)
UpdaterElapsed ==
    /\ updater_pc = "loop"
    /\ generation < MaxGen
    /\ updater_pc' = "locking"
    /\ UNCHANGED <<grid_vars, created, env_vars, generation, adv_vars, mutex,
                   updates_per_second, last_updated, calls, app_vars, ret>>

\* An update task that drops its guard at once (`let _ = grid.lock()`) and
\* advances the Grid without holding the Mutex.
UpdaterLock_guard_dropped ==
    /\ updater_pc = "locking"
    /\ mutex = "free"
    /\ AdvanceBegin
    /\ enter_pass
    /\ calls' = Append(calls, now)
    /\ updater_pc' = "advancing"
    /\ UNCHANGED <<grid_vars, created, now, generation, mutex,
                   updates_per_second, last_updated, app_vars, ret>>

\* grid.lock() succeeds and grid.advance() is entered.
UpdaterLock ==
    /\ updater_pc = "locking"
    /\ lock("updater")
    /\ AdvanceBegin
    /\ enter_pass
    /\ calls' = Append(calls, now)
    /\ updater_pc' = "advancing"
    /\ UNCHANGED <<grid_vars, created, now, generation, updates_per_second,
                   last_updated, app_vars, ret>>

\* advance() returned; last_updated = Instant::now(); the guard is dropped at
\* the end of the if block.
UpdaterUnlock ==
    /\ updater_pc = "advancing"
    /\ advance_pc = "none"
    /\ unlock("updater")
    /\ last_updated' = now
    /\ updater_pc' = "loop"
    /\ UNCHANGED <<grid_vars, created, env_vars, generation, adv_vars,
                   updates_per_second, calls, app_vars, ret>>

Next ==
    \/ AppRun
    \/ \E stop \in BOOLEAN : AppPoll(stop)
    \/ AppExit
    \/ AppRenderUpload
    \/ AppLock
    \/ AppCopySeq
    \/ \E idx \in 0 .. (MaxWidth * MaxHeight - 1) : AppCopyPar(idx)
    \/ AppUnlock
    \/ AppDraw
    \/ UpdaterStart
    \/ UpdaterElapsed
    \/ UpdaterLock
    \/ AdvanceSeqStep
    \/ \E i \in 0 .. (MaxWidth * MaxHeight - 1) : AdvanceParStep(i)
    \/ AdvanceSwap
    \/ UpdaterUnlock

Spec == Init /\ [][Next]_vars

(***************************************************************************)
(* SpecTimed: Spec with the wall clock.  In Spec the elapsed test of the   *)
(* update task may pass at any moment; here it reads the clock.  Timing    *)
(* does not depend on what the cells hold, so the grids are one on each    *)
(* side of the dispatch of advance().                                      *)
(***************************************************************************)
\* Duration::from_millis(1000 / updates_per_second as u64), in ticks.
wait_duration == (1000 \div updates_per_second) * TicksPerMs

\* The --update-rate arguments of SpecTimed: zero, one with a period of one
\* millisecond, and one above 1000.
TimedRates == {0, 1000, 2000}

\* --grid-width and --grid-height of SpecTimed.
TimedDimensions == {<<1, 1>>, <<PAR_THRESHOLD_AREA, 1>>}

InitTimed ==
    /\ \E d \in TimedDimensions :
           /\ get_number(d[1], Some(0)) # None
           /\ get_number(d[2], Some(0)) # None
           /\ \E rows \in {AllDead(d[1], d[2]), DeadCentre(d[1], d[2])} :
                  Constructed(d[1], d[2], rows)
    /\ \E u \in TimedRates :
           /\ get_number(u, None) # None
           /\ updates_per_second = get_number(u, None)[1]
    /\ mutex = "free"
    /\ updater_pc = "unspawned"
    /\ app_pc = "run"
    /\ running = FALSE
    /\ uploading = TRUE
    /\ instances = fill_instances
    /\ inst_pending = {}
    /\ snapshot_gen = 0
    /\ ret = [op |-> "new"]
    /\ last_updated = 0
    /\ calls = <<>>
    /\ now = 0
    /\ pool = "unbuilt"

\* Time passes.
Tick ==
    /\ now < MaxTime
    /\ now' = now + 1
    /\ UNCHANGED <<grid_vars, created, pool, generation, adv_vars, mutex,
                   updater_vars, app_vars, ret>>

\* if last_updated.elapsed() > wait_duration, elapsed() reading the clock.
UpdaterElapsedTimed ==
    /\ updater_pc = "loop"
    /\ now - last_updated > wait_duration
    /\ UpdaterElapsed

NextTimed ==
    \/ Tick
    \/ AppRun
    \/ \E stop \in BOOLEAN : AppPoll(stop)
    \/ AppExit
    \/ AppRenderUpload
    \/ AppLock
    \/ AppCopySeq
    \/ \E idx \in 0 .. (MaxWidth * MaxHeight - 1) : AppCopyPar(idx)
    \/ AppUnlock
    \/ AppDraw
    \/ UpdaterStart
    \/ UpdaterElapsedTimed
    \/ UpdaterLock
    \/ AdvanceSeqStep
    \/ \E i \in 0 .. (MaxWidth * MaxHeight - 1) : AdvanceParStep(i)
    \/ AdvanceSwap
    \/ UpdaterUnlock

SpecTimed == InitTimed /\ [][NextTimed]_vars

(***************************************************************************)
(* SpecPoison: Spec in an environment where rayon cannot build its thread  *)
(* pool, so that the first fan-out of the process panics in the task that  *)
(* holds the MutexGuard, and the Mutex is poisoned.                        *)
(***************************************************************************)
\* par_iter_mut() panics: the dispatch takes the fan-out side and the global
\* thread pool has not been built yet.
fan_out_panics == area_requires_par /\ pool = "unbuilt"

\* Mutex::lock on a poisoned Mutex: Err(PoisonError), whose guard map_err
\* drops; the Mutex stays poisoned.
lock_poisoned ==
    /\ mutex = "poisoned"
    /\ mutex' = mutex

\* grid.lock() succeeds, grid.advance() is entered and its fan-out panics: the
\* update task unwinds, dropping its guard, before any cell was visited.
UpdaterLockPanics ==
    /\ updater_pc = "locking"
    /\ mutex = "free"
    /\ fan_out_panics
    /\ mutex' = "poisoned"
    /\ calls' = Append(calls, now)
    /\ updater_pc' = "panicked"
    /\ UNCHANGED <<grid_vars, created, env_vars, generation, adv_vars,
                   updates_per_second, last_updated, app_vars, ret>>

\* update_instances takes the lock and its fan-out panics: the main thread
\* unwinds, dropping its guard; until the process has exited, the update task
\* may still take steps.
AppLockPanics ==
    /\ app_pc = "render"
    /\ ~uploading
    /\ mutex = "free"
    /\ fan_out_panics
    /\ mutex' = "poisoned"
    /\ app_pc' = "panicked"
    /\ UNCHANGED <<grid_vars, created, env_vars, generation, adv_vars,
                   updater_vars, running, uploading, instances, inst_pending,
                   snapshot_gen, ret>>

\* An update task that answers the failed lock() by going round its loop.
UpdaterLockPoisoned_retrying ==
    /\ updater_pc = "locking"
    /\ lock_poisoned
    /\ updater_pc' = "loop"
    /\ UNCHANGED <<grid_vars, created, env_vars, generation, adv_vars,
                   updates_per_second, last_updated, calls, app_vars, ret>>

\* grid.lock().map_err(..)? in async_update_loop on a poisoned Mutex: the
\* function returns Err and the update task ends.
UpdaterLockPoisoned ==
    /\ updater_pc = "locking"
    /\ lock_poisoned
    /\ updater_pc' = "failed"
    /\ UNCHANGED <<grid_vars, created, env_vars, generation, adv_vars,
                   updates_per_second, last_updated, calls, app_vars, ret>>

\* self.grid.lock().map_err(..)? in update_instances on a poisoned Mutex:
\* update_instances returns Err, render's `?` and run's `?` pass it on.
AppLockPoisoned ==
    /\ app_pc = "render"
    /\ ~uploading
    /\ lock_poisoned
    /\ app_pc' = "failed"
    /\ UNCHANGED <<grid_vars, created, env_vars, generation, adv_vars,
                   updater_vars, running, uploading, instances, inst_pending,
                   snapshot_gen, ret>>

NextPoison ==
    \/ Next
    \/ UpdaterLockPanics
    \/ AppLockPanics
    \/ UpdaterLockPoisoned
    \/ AppLockPoisoned

SpecPoison == Init /\ [][NextPoison]_vars

(***************************************************************************)
(* SpecRun: SpecPoison in an environment where the calls render() makes to *)
(* the device and the window may return Err as well, so that every way     *)
(* out of the loop of App::run is there.                                   *)
(***************************************************************************)
\* render() with uploading set returns Err: from copy_buffer(..)?, with
\* uploading still set, or from swap_buffers()? once the buffer was copied.
AppUploadFails(copied) ==
    /\ app_pc = "render"
    /\ uploading
    /\ uploading' = ~copied
    /\ app_pc' = "failed"
    /\ UNCHANGED <<grid_vars, created, env_vars, generation, adv_vars, mutex,
                   updater_vars, running, instances, inst_pending,
                   snapshot_gen, ret>>

\* render() returns Err after update_instances returned Ok: from
\* update_buffer(..)? or from swap_buffers()?.
AppDrawFails ==
    /\ app_pc = "copied"
    /\ app_pc' = "failed"
    /\ UNCHANGED <<grid_vars, created, env_vars, generation, adv_vars, mutex,
                   updater_vars, running, uploading, instances, inst_pending,
                   snapshot_gen, ret>>

NextRun ==
    \/ NextPoison
    \/ \E copied \in BOOLEAN : AppUploadFails(copied)
    \/ AppDrawFails

SpecRun == Init /\ [][NextRun]_vars

(***************************************************************************)
(* SpecFair: Spec under fair scheduling, on the grids and rates of         *)
(* SpecTimed.  Each of the two threads keeps running while it has a step   *)
(* to take (the clock moves on, so the elapsed test of the update task     *)
(* passes again and again), and a thread that finds the Mutex free again   *)
(* and again in lock() gets it.                                            *)
(***************************************************************************)
\* The steps of the update task, but for lock().
UpdaterSteps ==
    \/ UpdaterStart
    \/ UpdaterElapsed
    \/ AdvanceSeqStep
    \/ \E i \in 0 .. (MaxWidth * MaxHeight - 1) : AdvanceParStep(i)
    \/ AdvanceSwap
    \/ UpdaterUnlock

\* The steps of the main thread in App::run, but for lock().
AppSteps ==
    \/ AppRun
    \/ \E stop \in BOOLEAN : AppPoll(stop)
    \/ AppExit
    \/ AppRenderUpload
    \/ AppCopySeq
    \/ \E idx \in 0 .. (MaxWidth * MaxHeight - 1) : AppCopyPar(idx)
    \/ AppUnlock
    \/ AppDraw

Fairness ==
    /\ WF_vars(UpdaterSteps)
    /\ WF_vars(AppSteps)
    /\ SF_vars(UpdaterLock)
    /\ SF_vars(AppLock)

SpecFair == InitTimed /\ [][Next]_vars /\ Fairness

(***************************************************************************)
(* Properties                                                              *)
(***************************************************************************)
\* Number of Alive cells of generation c at the 8 entries of neighbours[k].
LiveCount(c, k) ==
    Cardinality({d \in 0 .. 7 : c[neighbours[k][d]] = "Alive"})

\* The rule table of Conway's Game of Life.
Rule(current, n) ==
    IF n = 3 THEN "Alive"
    ELSE IF current = "Alive" /\ n = 2 THEN "Alive"
    ELSE "Dead"

\* One generation of c, every cell from c alone.
OneGeneration(c) == [k \in DOMAIN c |-> Rule(c[k], LiveCount(c, k))]

\* G^n(c)
RECURSIVE GenN(_, _)
GenN(c, n) == IF n = 0 THEN c ELSE OneGeneration(GenN(c, n - 1))

\* The flat cells Grid::new was given.
InitialCells ==
    [k \in 0 .. (created.width * created.height - 1) |->
        created.grid[k \div created.width][k % created.width]]

\* What a reader that copies out generation c ends with.
Colours(c) == [k \in DOMAIN c |-> IF c[k] = "Alive" THEN "COLOURED" ELSE "WHITE"]

\* An advance() call has returned and no other is in progress.
Advanced == advance_pc = "none" /\ generation >= 1

\* C1: one call of advance() replaces cells by exactly one generation of the
\* content it found: every new cells[k] is the rule applied to the old
\* cells[k] and the number of Alive old cells among neighbours[k]; cells does
\* not change before the call returns.
C1_AdvanceIsOneGeneration ==
    /\ Advanced => cells = OneGeneration(adv_entry.cells)
    /\ advance_pc # "none" => cells = adv_entry.cells

\* C1 witness: a second advance() returned on a grid of several cells, and it
\* changed the content.
C1_Witness ==
    /\ Advanced
    /\ generation = 2
    /\ area >= 2
    /\ cells # adv_entry.cells
    /\ \E k \in DOMAIN cells : cells[k] = "Alive"

\* C3: every completed copy-out of the reader is one complete generation
\* G^n(initial) with n >= 0, never a mix of two generations.
C3_SnapshotIsOneGeneration ==
    app_pc = "copied" =>
        \E n \in 0 .. generation : instances = Colours(GenN(InitialCells, n))

\* C3 witness: a copy-out completed that shows a generation other than the
\* initial one, while the update task is in the middle of its next pass.
C3_Witness ==
    /\ app_pc = "copied"
    /\ snapshot_gen = 1
    /\ instances # Colours(InitialCells)
    /\ updater_pc = "advancing"
    /\ adv_pending # {}
    /\ adv_pending # DOMAIN cells

\* C4: whichever pass ran, the cells advance() leaves are those the sequential
\* pass computes from the same content, whatever the scratchpad held; every
\* scratchpad index was written exactly once.
C4_PassesAgree ==
    Advanced =>
        /\ \A scratch \in {adv_entry.scratchpad_cells,
                           [k \in DOMAIN cells |-> "Dead"],
                           [k \in DOMAIN cells |-> "Alive"]} :
               cells = seq_pass(adv_entry.cells, scratch, area)
        /\ \A k \in DOMAIN cells : adv_writes[k] = 1

\* C4 witness: the data-parallel pass ran to its end and changed the content.
C4_Witness ==
    /\ Advanced
    /\ area_requires_par
    /\ cells # adv_entry.cells
    /\ \E k \in DOMAIN cells : cells[k] = "Alive"

\* C5: after k advance() calls of the update task, however the reader's lock
\* acquisitions fall between them, cells is G^k(initial).
C5_GenerationsInOrder == cells = GenN(InitialCells, generation)

\* C5 witness: two advance() calls with a reader copy-out between them, each
\* generation different from the one before.
C5_Witness ==
    /\ generation = 2
    /\ snapshot_gen = 1
    /\ app_pc = "copied"
    /\ cells # InitialCells
    /\ cells # adv_entry.cells

\* C2: next_status is total on every status and every count 0 .. 8: Alive for
\* count 3, Alive for an Alive cell with count 2, Dead otherwise; the cell it
\* is called on keeps its status.
C2_NextStatusRule ==
    ret.op = "next_status" =>
        /\ ret.val \in Status
        /\ ret.val = Rule(ret.self, ret.n)
        /\ (ret.n = 3 => ret.val = "Alive")
        /\ (ret.n = 2 => (ret.val = "Alive" <=> ret.self = "Alive"))
        /\ (ret.n \notin {2, 3} => ret.val = "Dead")
        /\ cells[ret.idx] = ret.self

\* C2 witness: a Dead cell asked with count 2 stays Dead.
C2_Witness ==
    /\ ret.op = "next_status"
    /\ ret.self = "Dead"
    /\ ret.n = 2
    /\ ret.val = "Dead"

\* Row and column offsets of the directions N, NE, E, SE, S, SW, W, NW.
RowOffset == [d \in 0 .. 7 |-> <<-1, -1, 0, 1, 1, 1, 0, -1>>[d + 1]]

ColOffset == [d \in 0 .. 7 |-> <<0, 1, 1, 1, 0, -1, -1, -1>>[d + 1]]

\* The flat index of the toroidal neighbour of (i, j) in direction d on a grid
\* of h rows and w columns.
TorusNeighbour(w, h, i, j, d) ==
    ((i + RowOffset[d]) % h) * w + ((j + ColOffset[d]) % w)

\* nb lists exactly the 8 indices of the tuple t, in order.
IsTable(nb, t) == DOMAIN nb = 0 .. 7 /\ \A d \in 0 .. 7 : nb[d] = t[d + 1]

\* C6: on every grid built with width >= 1 and height >= 1 the cached array of
\* cell (i, j) lists the flat indices of its toroidal neighbours in the order
\* N, NE, E, SE, S, SW, W, NW; on the 3 x 3 grid these are the tables of
\* test_neighbour_coords.
C6_NeighboursAreToroidal ==
    /\ (created.width >= 1 /\ created.height >= 1) =>
           \A i \in 0 .. created.height - 1, j \in 0 .. created.width - 1 :
               \A d \in 0 .. 7 :
                   neighbours[i * created.width + j][d]
                       = TorusNeighbour(created.width, created.height, i, j, d)
    /\ (created.width = 3 /\ created.height = 3) =>
           /\ IsTable(neighbours[0], <<6, 7, 1, 4, 3, 5, 2, 8>>)
           /\ IsTable(neighbours[4], <<1, 2, 5, 8, 7, 6, 3, 0>>)
           /\ IsTable(neighbours[8], <<5, 3, 6, 0, 2, 1, 7, 4>>)

\* C6 witness: the 3 x 3 grid, after an advance().
C6_Witness ==
    /\ created.width = 3
    /\ created.height = 3
    /\ VecLen(neighbours) = 9
    /\ Advanced

\* C7: the two buffers have width() * height() cells each, the neighbour cache
\* has one array per cell, and every cached index is an index of cells.
C7_LengthsMatchDimensions ==
    /\ VecLen(cells) = width * height
    /\ VecLen(scratchpad_cells) = width * height
    /\ VecLen(neighbours) = VecLen(cells)
    /\ \A k \in DOMAIN neighbours : \A d \in 0 .. 7 :
           neighbours[k][d] \in 0 .. VecLen(cells) - 1

\* C7 on the grids built with width >= 1 and height >= 1.
C7_PositiveDimensions ==
    (created.width >= 1 /\ created.height >= 1) => C7_LengthsMatchDimensions

\* C8: whatever number of advance() calls, width(), height(), area() and the
\* neighbour cache are what Grid::new left, and so are the lengths of the two
\* buffers.
C8_StructureUnchanged ==
    LET g == Grid_new(created.width, created.height, created.grid)
    IN  /\ width = g.max_j + 1
        /\ height = g.max_i + 1
        /\ area = g.area
        /\ neighbours = g.neighbours
        /\ VecLen(cells) = VecLen(g.cells)
        /\ VecLen(scratchpad_cells) = VecLen(g.scratchpad_cells)
        /\ ret.op = "dimensions" =>
               /\ ret.width = g.max_j + 1
               /\ ret.height = g.max_i + 1
               /\ ret.area = g.area

\* C8 witness: the dimensions are asked of a grid that is not square, after
\* two advance() calls that changed its content.
C8_Witness ==
    /\ ret.op = "dimensions"
    /\ generation = 2
    /\ ret.width # ret.height
    /\ cells # InitialCells
    /\ cells # scratchpad_cells

\* C9: get_idx(idx) is None exactly when idx >= area(), and otherwise the cell
\* of the current generation at that flat index (row idx / width, column
\* idx % width), not the scratchpad's.
C9_GetIdxCurrentGeneration ==
    ret.op = "get_idx" =>
        /\ (ret.val = None <=> ret.idx >= area)
        /\ ret.idx < area =>
               ret.val = Some(GenN(InitialCells, generation)[ret.idx])

\* C9 witness: get_idx returned a cell where the scratchpad holds another
\* status, after an advance().
C9_Witness ==
    /\ ret.op = "get_idx"
    /\ ret.val # None
    /\ generation >= 1
    /\ scratchpad_cells[ret.idx] # cells[ret.idx]

\* C9 witness of the absent case: an index >= area() on a grid with cells.
C9_WitnessAbsent ==
    /\ ret.op = "get_idx"
    /\ ret.val = None
    /\ area >= 1

\* C10: to_grid_idx(row, col) is row * width + col when row < height and
\* col < width, the row and column derived from that index are (row, col) and
\* the index is in [0, area()); it is None when row >= height or col >= width.
\* (width and height are the dimensions the grid reports.)
C10_ToGridIdxRoundTrip ==
    ret.op = "to_grid_idx" =>
        /\ (ret.i < height /\ ret.j < width) =>
               /\ ret.val = Some(ret.i * width + ret.j)
               /\ ret.val[1] \in 0 .. area - 1
               /\ ret.val[1] \div width = ret.i
               /\ ret.val[1] % width = ret.j
        /\ (ret.i >= height \/ ret.j >= width) => ret.val = None

\* C10 on the grids built with width >= 1 and height >= 1.
C10_PositiveDimensions ==
    (created.width >= 1 /\ created.height >= 1) => C10_ToGridIdxRoundTrip


\* C11: on a grid built by Grid::new(width, height), cells() returns height
\* rows of width entries each, and entry (i, j) is the cell of the current
\* generation at flat index i * width + j, the cell get_idx returns for it.
C11_CellsRowMajor ==
    ret.op = "cells" =>
        /\ ~ret.panic
        /\ VecLen(ret.val) = created.height
        /\ \A i \in 0 .. created.height - 1 :
               /\ VecLen(ret.val[i]) = created.width
               /\ \A j \in 0 .. created.width - 1 :
                      /\ ret.val[i][j] = cells[i * created.width + j]
                      /\ get_idx(i * created.width + j) = Some(ret.val[i][j])

\* C11 on the grids built with width >= 1 and height >= 1.
C11_PositiveDimensions ==
    (created.width >= 1 /\ created.height >= 1) => C11_CellsRowMajor

\* cells() returned the rows of a grid that is not square, after an advance()
\* that changed its content.
C11_PositiveWitness ==
    /\ ret.op = "cells"
    /\ ~ret.panic
    /\ created.width > created.height
    /\ created.height >= 2
    /\ generation >= 1
    /\ cells # scratchpad_cells


\* Grid::new was called with width = 0 or height = 0.
ZeroDimension == created.width = 0 \/ created.height = 0

\* The part of C12 that the stored fields decide: no cell in either buffer, no
\* entry in the neighbour cache, area() = 0; get_idx is None for every index;
\* advance() leaves both buffers empty.
C12_EmptyBuffers ==
    ZeroDimension =>
        /\ area = 0
        /\ cells = EmptyVec
        /\ scratchpad_cells = EmptyVec
        /\ neighbours = EmptyVec
        /\ ret.op = "get_idx" => ret.val = None
        /\ adv_pending = {}

\* C12: Grid::new with width = 0 or height = 0 yields a usable empty grid:
\* area() = 0, both buffers and the neighbour cache empty, width() and
\* height() the dimensions given to Grid::new, cells() a view without cells,
\* get_idx and to_grid_idx None for every argument, advance() a no-op; none of
\* these calls fails.
C12_UsableEmptyGrid ==
    ZeroDimension =>
        /\ C12_EmptyBuffers
        /\ width = created.width
        /\ height = created.height
        /\ ret.op = "dimensions" =>
               /\ ret.width = created.width
               /\ ret.height = created.height
               /\ ret.area = 0
        /\ ret.op = "cells" =>
               /\ ~ret.panic
               /\ \A i \in DOMAIN ret.val : ret.val[i] = EmptyVec
        /\ ret.op = "to_grid_idx" => ret.val = None

\* advance() returned on a grid without cells and get_idx was asked after it.
C12_EmptyWitness ==
    /\ ZeroDimension
    /\ generation >= 1
    /\ ret.op = "get_idx"


\* C13: an update rate of zero is rejected before the Grid is constructed:
\* the update task is never started with updates_per_second = 0, and the
\* division 1000 / updates_per_second never fails inside it.
C13_ZeroRateRejected ==
    /\ updater_pc # "unspawned" => updates_per_second # 0
    /\ updater_pc # "panicked"

\* With a rate other than zero the update task does not panic.
C13_PositiveRate == updates_per_second > 0 => updater_pc # "panicked"

\* The update task has panicked on its division while the render loop goes on
\* with a grid that never advances.
C13_PanicWitness ==
    /\ updater_pc = "panicked"
    /\ updates_per_second = 0
    /\ app_pc = "copied"
    /\ generation = 0


\* C14: a task whose lock() fails on the poisoned Mutex neither reads nor
\* mutates the Grid in that step, does not try again, and returns the failure:
\* the update task ends with Err; update_instances, render and run return Err.
\* Once the Mutex is poisoned, it stays so, and neither the Grid nor the
\* instances change any more.
C14_PoisonIsFatal ==
    [][/\ mutex = "poisoned" =>
              /\ mutex' = "poisoned"
              /\ UNCHANGED <<grid_vars, adv_vars, generation, instances>>
              /\ (updater_pc = "locking" /\ updater_pc' # updater_pc)
                     => updater_pc' = "failed"
              /\ (app_pc = "render" /\ ~uploading /\ app_pc' # app_pc)
                     => app_pc' = "failed"
       /\ updater_pc = "failed" => updater_pc' = "failed"
       /\ app_pc = "failed" => app_pc' = "failed"
       /\ updater_pc' = "failed" => mutex = "poisoned"
       /\ app_pc' = "failed" => mutex = "poisoned"]_vars

\* C14 witness: the update task panicked in its fan-out, and run has returned
\* Err from the render that followed.
C14_Witness ==
    /\ mutex = "poisoned"
    /\ updater_pc = "panicked"
    /\ app_pc = "failed"
    /\ Len(calls) = 1

\* The other way round: the main thread panicked in update_instances, and the
\* update task has returned Err.
C14_WitnessUpdater ==
    /\ mutex = "poisoned"
    /\ app_pc = "panicked"
    /\ updater_pc = "failed"


\* C15: the update task and the reader are never both inside the scope of
\* their MutexGuard; the Grid (cells, scratchpad and neighbour cache) changes
\* only in a step of advance() made by the update task while it holds the
\* Mutex, and such a step changes nothing of the reader; no step of the reader
\* changes the Grid.
C15_OnlyAdvanceUnderLockMutates ==
    /\ [](~(updater_pc = "advancing" /\ app_pc = "copy"))
    /\ [][/\ grid_vars' # grid_vars =>
                  /\ updater_pc = "advancing"
                  /\ mutex = "updater"
                  /\ advance_pc # "none"
                  /\ app_pc # "copy"
                  /\ UNCHANGED app_vars
          /\ app_vars' # app_vars => UNCHANGED <<grid_vars, generation>>
          /\ neighbours' = neighbours]_vars

\* C15 witness: the update task is in the middle of a pass that has changed
\* the scratchpad, holding the Mutex, while the reader is about to ask for it.
C15_Witness ==
    /\ updater_pc = "advancing"
    /\ mutex = "updater"
    /\ adv_pending # {}
    /\ scratchpad_cells # adv_entry.scratchpad_cells
    /\ app_pc = "render"
    /\ ~uploading
    /\ generation >= 1

\* The queries of the Grid surface leave the Grid as it is.
C15_QueriesLeaveGrid ==
    [][(ret' # ret /\ ret'.op # "advance") =>
           UNCHANGED <<grid_vars, adv_vars, generation>>]_vars


\* Grid::new left the fixture of test_alive_count: 3 x 3, every cell Alive but
\* the centre.
DeadCentreFixture ==
    /\ created.width = 3
    /\ created.height = 3
    /\ created.grid = DeadCentre(3, 3)

\* C16: on the 3 x 3 grid that is Alive but for its centre, 8 cells are Alive,
\* the fold of advance() counts 8 Alive neighbours for the centre and 7 for
\* every other cell, and after one advance() the centre is Dead and so is
\* every other cell, as the rule table gives for 8 and for 7.
C16_DeadCentreDiesOut ==
    DeadCentreFixture =>
        /\ generation = 0 =>
               /\ Cardinality({k \in DOMAIN cells : alive(cells[k])}) = 8
               /\ cells[4] = "Dead"
               /\ alives(cells, 4) = 8
               /\ \A k \in DOMAIN cells \ {4} : alives(cells, k) = 7
               /\ Rule("Dead", 8) = "Dead"
               /\ Rule("Alive", 7) = "Dead"
        /\ (generation = 1 /\ advance_pc = "none") =>
               /\ cells[4] = "Dead"
               /\ \A k \in DOMAIN cells \ {4} :
                      cells[k] = Rule("Alive", alives(adv_entry.cells, k))
               /\ \A k \in DOMAIN cells : cells[k] = "Dead"

\* C16 witness: the first advance() on the fixture has returned.
C16_Witness ==
    /\ DeadCentreFixture
    /\ generation = 1
    /\ advance_pc = "none"
    /\ ret.op = "advance"
    /\ cells # adv_entry.cells


\* The 8 entries of the array nb are pairwise distinct.
Distinct(nb) == \A d, e \in 0 .. 7 : d # e => nb[d] # nb[e]

\* C17 as stated: on every grid with width >= 1 and height >= 1 the 8 flat
\* indices of a cell's neighbour array are pairwise distinct and none is the
\* index of the cell itself.
C17_EightDistinctNeighbours ==
    ret.op = "neighbour_coords" =>
        /\ Distinct(ret.val)
        /\ \A d \in 0 .. 7 : ret.val[d] # (ret.max_j + 1) * ret.i + ret.j

\* C17 amended: the 8 indices are pairwise distinct and none is the cell's own
\* on the grids with width >= 3 and height >= 3, and on no other: with a
\* dimension of 1 or 2 the array names some cell twice, and with a dimension
\* of 1 it names the cell itself.
C17_DistinctFromThreeByThree ==
    ret.op = "neighbour_coords" =>
        LET own == (ret.max_j + 1) * ret.i + ret.j
        IN  /\ DOMAIN ret.val = 0 .. 7
            /\ (ret.max_i >= 2 /\ ret.max_j >= 2) =>
                   /\ Distinct(ret.val)
                   /\ \A d \in 0 .. 7 : ret.val[d] # own
            /\ (ret.max_i < 2 \/ ret.max_j < 2) => ~Distinct(ret.val)
            /\ (ret.max_i = 0 \/ ret.max_j = 0)
                   <=> \E d \in 0 .. 7 : ret.val[d] = own

\* C17 witness: a corner cell of a grid of at least 3 x 3 cells that is not
\* square, all of whose neighbours but two lie across a border.
C17_Witness ==
    /\ ret.op = "neighbour_coords"
    /\ ret.max_i >= 2
    /\ ret.max_j > ret.max_i
    /\ ret.i = 0
    /\ ret.j = ret.max_j

\* The same on the cache of the grids Grid::new builds.
C17_CacheDistinct ==
    \A k \in DOMAIN neighbours :
        /\ (created.width >= 3 /\ created.height >= 3) =>
               /\ Distinct(neighbours[k])
               /\ \A d \in 0 .. 7 : neighbours[k][d] # k
        /\ (created.width < 3 \/ created.height < 3) => ~Distinct(neighbours[k])


\* C18: while an advance() call is in progress, a step leaves cells as it is
\* and writes at most the scratchpad entries it visits, each with the rule
\* applied to cells alone; the step that ends the call finds every scratchpad
\* entry visited, written once, and exchanges the two buffers; outside a call
\* neither buffer changes.  So the buffers are swapped once per call, after
\* the whole pass, on the sequential and on the fan-out path.
C18_PassThenOneSwap ==
    [][/\ (advance_pc # "none" /\ advance_pc' # "none") =>
              /\ cells' = cells
              /\ generation' = generation
              /\ advance_pc' = advance_pc
              /\ \A k \in DOMAIN scratchpad_cells :
                     IF k \in adv_pending \ adv_pending'
                     THEN scratchpad_cells'[k]
                              = Rule(cells[k], LiveCount(cells, k))
                     ELSE scratchpad_cells'[k] = scratchpad_cells[k]
       /\ (advance_pc # "none" /\ advance_pc' = "none") =>
              /\ adv_pending = {}
              /\ \A k \in DOMAIN scratchpad_cells : adv_writes[k] = 1
              /\ VecLen(scratchpad_cells) = area
              /\ cells' = scratchpad_cells
              /\ scratchpad_cells' = cells
              /\ generation' = generation + 1
       /\ advance_pc = "none" =>
              /\ UNCHANGED <<cells, scratchpad_cells, generation>>
              /\ advance_pc' # "none" =>
                     adv_pending' = DOMAIN scratchpad_cells]_vars

\* C18 witness: the fan-out pass has written every scratchpad entry, out of
\* order, and the swap has not happened yet: cells is still what the call
\* found, and differs from the scratchpad.
C18_Witness ==
    /\ advance_pc = "par"
    /\ adv_pending = {}
    /\ cells = adv_entry.cells
    /\ scratchpad_cells # cells
    /\ scratchpad_cells # adv_entry.scratchpad_cells
    /\ generation = 1

\* The same on the sequential path.
C18_WitnessSeq ==
    /\ advance_pc = "seq"
    /\ adv_pending = {}
    /\ cells = adv_entry.cells
    /\ scratchpad_cells # cells
    /\ generation = 1


\* C19: when advance() has returned, the scratchpad holds the generation that
\* cells held when the call was made, G^(n-1)(initial), and cells is one
\* generation of exactly that; during the next call every scratchpad entry
\* not yet visited still holds that old value and every visited one holds the
\* new generation's, so that at the swap nothing of the old one is left.
C19_BuffersExchangeRoles ==
    /\ Advanced =>
           /\ scratchpad_cells = adv_entry.cells
           /\ scratchpad_cells = GenN(InitialCells, generation - 1)
           /\ cells = OneGeneration(scratchpad_cells)
    /\ advance_pc # "none" =>
           \A k \in DOMAIN scratchpad_cells :
               scratchpad_cells[k] =
                   IF k \in adv_pending
                   THEN adv_entry.scratchpad_cells[k]
                   ELSE OneGeneration(cells)[k]
    /\ (advance_pc # "none" /\ generation >= 1) =>
           adv_entry.scratchpad_cells = GenN(InitialCells, generation - 1)

\* C19 witness: the second advance() has returned; the initial generation,
\* which the scratchpad held during that call, is in neither buffer, and the
\* scratchpad holds generation 1, which differs from generation 2 in cells.
C19_Witness ==
    /\ Advanced
    /\ generation = 2
    /\ scratchpad_cells = GenN(InitialCells, 1)
    /\ adv_entry.scratchpad_cells = InitialCells
    /\ InitialCells # scratchpad_cells
    /\ InitialCells # cells
    /\ scratchpad_cells # cells


\* C20: the update task calls advance() only when more than the period
\* 1000 ms / updates_per_second has elapsed since last_updated, and more than
\* one period lies between any two consecutive calls of advance().  (A span
\* of t ticks is more than the period when t / TicksPerMs > 1000 /
\* updates_per_second.)
C20_OneGenerationPerPeriod ==
    /\ updater_pc = "locking" =>
           (now - last_updated) * updates_per_second > 1000 * TicksPerMs
    /\ \A k \in 1 .. Len(calls) - 1 :
           (calls[k + 1] - calls[k]) * updates_per_second > 1000 * TicksPerMs

\* What the code keeps: more than the whole milliseconds of the period,
\* 1000 div updates_per_second, elapse before a call and between two calls.
C20_TruncatedPeriod ==
    /\ updater_pc = "locking" => now - last_updated > wait_duration
    /\ \A k \in 1 .. Len(calls) - 1 : calls[k + 1] - calls[k] > wait_duration

\* Two calls of advance() at a rate of 1000, three ticks apart.
C20_TwoCallsWitness ==
    /\ updates_per_second = 1000
    /\ Len(calls) = 2
    /\ calls[2] - calls[1] = wait_duration + 1
    /\ generation = 2

\* Two calls of advance() at a rate of 2000, one tick (half a period) apart.
C20_ShortGapWitness ==
    /\ updates_per_second = 2000
    /\ Len(calls) = 2
    /\ calls[2] - calls[1] = 1


\* The task that holds the Mutex has a step to take that needs nothing of the
\* other task: the pass goes on, the swap follows it, the guard is dropped.
HolderCanStep ==
    /\ mutex = "updater" =>
           /\ updater_pc = "advancing"
           /\ ENABLED UpdaterSteps
    /\ mutex = "reader" =>
           /\ app_pc = "copy"
           /\ ENABLED AppSteps

C22_IndexOperationsAgree ==
    (ret.op = "to_grid_idx" /\ ret.val # None) =>
        /\ ret.val[1] < area
        /\ get_idx(ret.val[1]) # None

\* C22 on the grids built with width >= 1 and height >= 1.
C22_PositiveDimensions ==
    (created.width >= 1 /\ created.height >= 1) => C22_IndexOperationsAgree

\* to_grid_idx returned the last index of a grid that is not square, after an
\* advance().
C22_PositiveWitness ==
    /\ ret.op = "to_grid_idx"
    /\ ret.val = Some(area - 1)
    /\ created.width > created.height
    /\ created.height >= 2
    /\ generation >= 1

\* to_grid_idx returned an index on a grid without cells.
C22_EmptyGridIndex ==
    /\ ret.op = "to_grid_idx"
    /\ ret.val # None
    /\ area = 0
    /\ get_idx(ret.val[1]) = None


\* The direction opposite to d in the order N, NE, E, SE, S, SW, W, NW.
Opposite(d) == (d + 4) % 8

\* C23: on every grid built with width >= 1 and height >= 1, when the
\* neighbour array of cell a holds b at direction d, the neighbour array of b
\* holds a at the opposite direction.
C23_NeighboursAreSymmetric ==
    (created.width >= 1 /\ created.height >= 1) =>
        \A a \in DOMAIN neighbours : \A d \in 0 .. 7 :
            LET b == neighbours[a][d]
            IN  /\ b \in DOMAIN neighbours
                /\ neighbours[b][Opposite(d)] = a

\* C23 witness: on the 4 x 2 grid the north of cell 0 is cell 4, across the
\* border, and the south of cell 4 is cell 0; its north-west is cell 7, whose
\* south-east it is.
C23_Witness ==
    /\ created.width = 4
    /\ created.height = 2
    /\ neighbours[0][0] = 4
    /\ neighbours[4][4] = 0
    /\ neighbours[0][7] = 7
    /\ neighbours[7][3] = 0
    /\ generation >= 1

\* The same of neighbour_coords called on its own, on the larger grids.
C23_CoordsSymmetric ==
    ret.op = "neighbour_coords" =>
        \A d \in 0 .. 7 :
            LET w == ret.max_j + 1
                b == ret.val[d]
            IN  neighbour_coords(ret.max_i, ret.max_j, b \div w, b % w)
                    [Opposite(d)] = w * ret.i + ret.j


\* C24: the generation a reader's snapshot shows is the number of advance()
\* calls that had returned when update_instances took the lock, and is never
\* below the generation of the snapshot before; while the reader copies, the
\* generation stands still and each instance is overwritten once with the
\* colour of its cell; update_instances returns when all area() instances
\* have been overwritten, and instances then shows that generation alone.
C24_SnapshotsAreMonotonic ==
    [][/\ (app_pc = "render" /\ app_pc' = "copy") =>
              /\ snapshot_gen' = generation
              /\ snapshot_gen <= snapshot_gen'
              /\ inst_pending' = 0 .. area - 1
       /\ (app_pc = "copy" /\ app_pc' = "copy") =>
              /\ generation' = generation
              /\ snapshot_gen' = snapshot_gen
              /\ \A idx \in DOMAIN instances :
                     instances'[idx] =
                         IF idx \in inst_pending \ inst_pending'
                         THEN Colours(GenN(InitialCells, snapshot_gen))[idx]
                         ELSE instances[idx]
       /\ (app_pc = "copy" /\ app_pc' = "copied") =>
              /\ inst_pending = {}
              /\ snapshot_gen = generation
              /\ VecLen(instances) = area
              /\ instances' = Colours(GenN(InitialCells, snapshot_gen))
       /\ (app_pc # "render" /\ app_pc' # "copy") =>
              snapshot_gen' = snapshot_gen]_vars

\* C24 witness: the reader is in the middle of its copy-out of generation 2;
\* an instance it has not reached yet shows generation 1, which differs there
\* from the initial generation and from generation 2: it was written by an
\* earlier snapshot of generation 1.
C24_Witness ==
    /\ app_pc = "copy"
    /\ snapshot_gen = 2
    /\ inst_pending # DOMAIN instances
    /\ \E k \in inst_pending :
           /\ instances[k] = Colours(GenN(InitialCells, 1))[k]
           /\ instances[k] # Colours(InitialCells)[k]
           /\ instances[k] # Colours(GenN(InitialCells, 2))[k]

\* C25: in App::run, a stop event (Escape key, Closed or Resized) polled in
\* an iteration that starts with uploading false clears running: the render of
\* that iteration is the one frame still drawn, and the next loop test makes
\* run return Ok.  Polled in an iteration that starts with uploading true (the
\* first one), it leaves running set.  running is cleared by nothing else, and
\* run returns only Ok on the failed loop test or the Err of render().
StopPolled == AppPoll(TRUE)

FrameSteps ==
    {<<"render", "copy">>, <<"copy", "copied">>, <<"copied", "poll">>,
     <<"poll", "exited">>, <<"render", "failed">>, <<"copied", "failed">>,
     <<"render", "panicked">>}

C25_StopEventEndsLoopAfterFirstFrame ==
    /\ []((app_pc = "poll" /\ running) =>
              (/\ ENABLED StopPolled
               /\ (uploading => ~ENABLED (StopPolled /\ ~running'))
               /\ (~uploading => ~ENABLED (StopPolled /\ running'))))
    /\ [][/\ (running /\ ~running') =>
                 (app_pc = "poll" /\ app_pc' = "render" /\ ~uploading)
          /\ (app_pc # "run" /\ ~running) =>
                 (/\ ~running'
                  /\ (app_pc' # app_pc => <<app_pc, app_pc'>> \in FrameSteps))
          /\ ~uploading => ~uploading'
          /\ (uploading /\ ~uploading') => app_pc = "render"
          /\ (app_pc' = "exited" /\ app_pc # "exited") =>
                 (app_pc = "poll" /\ ~running)
          /\ (app_pc' = "failed" /\ app_pc # "failed") =>
                 app_pc \in {"render", "copied"}
          /\ app_pc \in {"exited", "failed", "panicked"} =>
                 UNCHANGED app_vars]_vars

\* C25 witness: running was cleared by a stop event, the frame of that
\* iteration was drawn from a Grid that had advanced, and run has returned Ok.
C25_Witness ==
    /\ app_pc = "exited"
    /\ ~running
    /\ ~uploading
    /\ snapshot_gen >= 1
    /\ instances = Colours(GenN(InitialCells, snapshot_gen))

\* C25, under fair scheduling and with no failure of render(): once running
\* is cleared, run returns Ok.
C25_StopLeadsToOk ==
    (app_pc = "render" /\ ~running) ~> (app_pc = "exited")

=========================================================================
